---- MODULE Spec2Model ----
(***************************************************************************)
(* The design configurator of the phone-case storefront: the Placement     *)
(* State kept by DesignConfigurator (drag / resize of the user's image),   *)
(* the export of the cropped image (saveConfiguration), the persistence of *)
(* the selected options (saveConfig) and the react-query mutation that     *)
(* joins the two and navigates to the preview page; the upload page that   *)
(* creates the Configuration from the source image; createCheckoutSession, *)
(* which finds or creates the Order and opens the payment session.         *)
(*                                                                         *)
(* Lengths that JavaScript computes by division are rationals <<n, d>>     *)
(* (d > 0, lowest terms); positions and layout rectangles are integers.    *)
(***************************************************************************)
EXTENDS Integers, Sequences, FiniteSets, TLC

VARIABLES
    configId,            \* prop configId of the mounted DesignConfigurator
    imageDimensions,     \* prop imageDimensions: <<width, height>> (native pixels)
    layout,              \* bounding rectangles of phoneCaseRef and containerRef
    route,               \* what the router shows: [page, id]
    mount,               \* how many times the configurator has been mounted
    options,             \* useState options
    renderedDimensions,  \* useState renderedDimensions: <<width, height>>, rationals
    renderedPosition,    \* useState renderedPosition: <<x, y>>
    rnd,                 \* the Rnd element's own frame: [x, y, width, height]
    touched,             \* a drag-stop or resize-stop happened since the mount
    isPending,           \* useMutation's isPending
    subs,                \* the submissions started so far, in order
    db,                  \* the Configuration table: id -> record
    isDragOver,          \* upload page: useState isDragOver
    uploads,             \* upload page: the uploads started by startUpload, in order
    rejected,            \* upload page: the error notifications of onDropRejected
    session,             \* the user the auth session belongs to, or "none"
    users,               \* the User table: the ids it holds
    orders,              \* the Order table, in order of creation
    calls,               \* the createCheckoutSession calls started so far
    stripe,              \* what the payment service holds: products and sessions
    hooks,               \* the webhook requests received so far, in order
    emails,              \* the confirmation emails the mail service accepted
    thankYou,            \* the thank-you page: its order id and its query
    storage,             \* localStorage "configurationId", or "none"
    callback,            \* the auth callback page: its state, query and navigations
    isLoginModalOpen     \* preview page: useState isLoginModalOpen

uploadVars == <<isDragOver, uploads, rejected>>

checkoutVars == <<session, users, orders, calls, stripe>>

paymentVars == <<hooks, emails, thankYou>>

authVars == <<storage, callback, isLoginModalOpen>>

vars == <<configId, imageDimensions, layout, route, mount, options,
          renderedDimensions, renderedPosition, rnd, touched, isPending, subs, db,
          uploadVars, checkoutVars, paymentVars, authVars>>

(***************************************************************************)
(* Bounds and input sets                                                   *)
(***************************************************************************)
\* submissions started in one run of the pipeline specifications
MaxSubmissions == 2

\* submissions started in one run of the placement specification
MaxExports == 1

\* exports started in one run of the repeated-export specification
MaxRuns == 2

\* files dropped on the upload page in one run
MaxDrops == 2

\* createCheckoutSession calls started in one run
MaxCalls == 2

\* webhook requests received in one run
MaxHooks == 2

ConfigIds == {"cfg1", "cfg2"}

\* native sizes of uploaded source images
TallImage == <<2000, 4000>>

WideImage == <<1000, 750>>

\* [caseLeft, caseTop, width, height, containerLeft, containerTop]
CenteredLayout ==
    [caseLeft |-> 40, caseTop |-> 60, width |-> 240, height |-> 490,
     containerLeft |-> 0, containerTop |-> 0]

ScrolledLayout ==
    [caseLeft |-> 348, caseTop |-> 135, width |-> 180, height |-> 368,
     containerLeft |-> 20, containerTop |-> 80]

\* the layouts the browser can give the page
Layouts == {CenteredLayout, ScrolledLayout}

\* positions a drag can stop at
DragStops == {<<-20, 30>>}

\* resize-stop events: the new width of the element and the position it ends at
ResizeStops == {[width |-> 125, x |-> 170, y |-> 230]}

\* files a user can drop on the upload page; width and height are what the
\* image metadata reports, 0 when it reports none
PngTall ==
    [name |-> "tall.png", ext |-> ".png", type |-> "image/png",
     width |-> 2000, height |-> 4000]

JpegWide ==
    [name |-> "wide.jpeg", ext |-> ".jpeg", type |-> "image/jpeg",
     width |-> 1000, height |-> 750]

PngNoSize ==
    [name |-> "nosize.png", ext |-> ".png", type |-> "image/png",
     width |-> 0, height |-> 0]

GifFile ==
    [name |-> "anim.gif", ext |-> ".gif", type |-> "image/gif",
     width |-> 300, height |-> 300]

Files == {PngTall, JpegWide, PngNoSize, GifFile}

\* the signed-in users and the configuration ids a checkout is asked for
UserIds == {"u1", "u2"}

CheckoutIds == {"cfg1", "missing"}

\* option-validator.ts
COLORS == {"black", "blue", "rose", "green", "orange"}
MODELS == {"iphonex", "iphone11", "iphone12", "iphone13", "iphone14", "iphone15", "iphone16"}
MATERIALS == {"silicone", "polycarbonate"}
FINISHES == {"smooth", "textured"}

\* the values the user picks among COLORS and MODELS.options
ColorPicks == {"black", "blue"}
ModelPicks == {"iphonex", "iphone11"}

Null == <<>>

(***************************************************************************)
(* Rational arithmetic                                                     *)
(***************************************************************************)
RECURSIVE GCD(_, _)
GCD(a, b) == IF b = 0 THEN a ELSE GCD(b, a % b)

Abs(i) == IF i < 0 THEN -i ELSE i

\* n / d in lowest terms, d > 0
Rat(n, d) ==
    LET g == GCD(Abs(n), d) IN <<n \div g, d \div g>>

\* JavaScript parseInt of the text of a non-negative length: the digits before
\* the decimal point
ParseInt(r) == r[1] \div r[2]

(***************************************************************************)
(* Initial Placement State and the Rnd element's default frame             *)
(***************************************************************************)
InitialDimensionsHalf(dim) == <<Rat(dim[1], 2), Rat(dim[2], 2)>>

InitialDimensions(dim) == <<Rat(dim[1], 4), Rat(dim[2], 4)>>

InitialPosition == <<150, 205>>

RndDefault(dim) ==
    [x |-> 150, y |-> 205, height |-> Rat(dim[2], 4), width |-> Rat(dim[1], 4)]

InitialOptions ==
    [color |-> "black", model |-> "iphonex", material |-> "silicone", finish |-> "smooth"]

(***************************************************************************)
(* Geometry resolver: the synchronous head of saveConfiguration            *)
(***************************************************************************)
LeftOffset(l) == l.caseLeft - l.containerLeft

TopOffset(l) == l.caseTop - l.containerTop

\* the two getBoundingClientRect() results saveConfiguration reads
MeasuredRects == layout

\* <<actualX, actualY>> for a placement position
ActualOriginNoOffset(pos, l) == <<pos[1], pos[2]>>

ActualOrigin(pos, l) == <<pos[1] - LeftOffset(l), pos[2] - TopOffset(l)>>

\* the canvas takes the silhouette's rendered width and height
CanvasSizeOfCrop(l) == <<ParseInt(renderedDimensions[1]), ParseInt(renderedDimensions[2])>>

CanvasSize(l) == <<l.width, l.height>>

\* The values of one render that saveConfiguration closes over: the state
\* variables are constants of the render in which the handler was created.
RenderClosure == [position |-> renderedPosition, dimensions |-> renderedDimensions]

\* the arguments of ctx.drawImage for submission s
DrawImageArgsLive(s) ==
    [x |-> s.actual[1], y |-> s.actual[2],
     width |-> renderedDimensions[1], height |-> renderedDimensions[2]]

DrawImageArgs(s) ==
    [x |-> s.actual[1], y |-> s.actual[2],
     width |-> s.closure.dimensions[1], height |-> s.closure.dimensions[2]]

\* canvas.toDataURL() -> base64ToBlob -> new File: a PNG file whose pixels are
\* what drawImage put on the canvas: the source image at the drawn origin and
\* size, clipped to the canvas
EncodedFile(s) ==
    [name |-> "filename.png", type |-> "image/png",
     pixels |-> [image |-> s.image, canvas |-> s.canvas, drawn |-> s.drawn]]

\* the URL the upload service gives the file uploaded by submission n
FileUrl(n) == <<"ufs", n>>

(***************************************************************************)
(* The promises of one submission                                          *)
(***************************************************************************)
\* saveConfiguration(): every error is caught inside, so its promise fulfils
\* once the function has run to its end, whether the export worked or not
SaveConfigurationPromise(s) ==
    IF s.exp \in {"ok", "failed"} THEN "fulfilled" ELSE "pending"

\* _saveConfig(args)
SaveConfigPromise(s) ==
    CASE s.persist = "ok" -> "fulfilled"
      [] s.persist = "failed" -> "rejected"
      [] OTHER -> "pending"

PromiseAll(p, q) ==
    IF "rejected" \in {p, q} THEN "rejected"
    ELSE IF p = "fulfilled" /\ q = "fulfilled" THEN "fulfilled"
    ELSE "pending"

\* mutationFn / onError / onSuccess: submission s after one of its promises
\* has moved.  A mutation settles once.
Settle(s) ==
    LET all == PromiseAll(SaveConfigurationPromise(s), SaveConfigPromise(s)) IN
    IF s.mutation # "pending" \/ all = "pending" THEN s
    ELSE IF all = "rejected"
         THEN [s EXCEPT !.mutation = "error", !.toasts = @ + 1]
         ELSE [s EXCEPT !.mutation = "success", !.pushed = TRUE]

\* the catch block of saveConfiguration
CatchExport(s) == [s EXCEPT !.exp = "failed", !.toasts = @ + 1]

Latest == subs[Len(subs)]

\* route after submission n moved from s to t
RouteAfter(s, t) ==
    IF t.pushed /\ ~s.pushed
    THEN [page |-> "preview", id |-> t.args.configId]
    ELSE route

PendingAfter(n, t) ==
    IF n = Len(subs) THEN t.mutation = "pending" ELSE isPending

(***************************************************************************)
(* Initial state: a configuration exists for each id, the configurator is  *)
(* mounted on one of them                                                  *)
(***************************************************************************)
NewConfiguration(id, dim) ==
    [imageUrl |-> <<"ufs", id>>, width |-> dim[1], height |-> dim[2],
     croppedImageUrl |-> Null,
     color |-> "null", model |-> "null", material |-> "null", finish |-> "null"]

\* the upload page before any drop
UploadIdle == isDragOver = FALSE /\ uploads = <<>> /\ rejected = <<>>

\* nobody signed in, no user, no order, nothing at the payment service
CheckoutIdle ==
    /\ session = "none"
    /\ users = {}
    /\ orders = <<>>
    /\ calls = <<>>
    /\ stripe = [products |-> <<>>, sessions |-> <<>>]

\* no webhook request yet, no email, the thank-you page not open
PaymentIdle ==
    /\ hooks = <<>>
    /\ emails = <<>>
    /\ thankYou = [open |-> FALSE, orderId |-> 0, data |-> [kind |-> "undefined"],
                   fetching |-> FALSE, error |-> "none"]

\* nothing stored, the callback page not open, the login modal closed
AuthIdle ==
    /\ storage = "none"
    /\ callback = [open |-> FALSE, configId |-> "none", data |-> "undefined",
                   error |-> "none", pushes |-> <<>>]
    /\ isLoginModalOpen = FALSE

\* pages: the <<native size, layout>> pairs a configurator can be opened with
InitWith(pages, ids) ==
    /\ configId \in ids
    /\ \E pg \in pages : imageDimensions = pg[1] /\ layout = pg[2]
    /\ route = [page |-> "design", id |-> configId]
    /\ mount = 1
    /\ options = InitialOptions
    /\ renderedDimensions = InitialDimensions(imageDimensions)
    /\ renderedPosition = InitialPosition
    /\ rnd = RndDefault(imageDimensions)
    /\ touched = FALSE
    /\ isPending = FALSE
    /\ subs = <<>>
    /\ db = [id \in ConfigIds |-> NewConfiguration(id, imageDimensions)]
    /\ UploadIdle
    /\ CheckoutIdle
    /\ PaymentIdle
    /\ AuthIdle

Init == InitWith({<<TallImage, CenteredLayout>>}, ConfigIds)

OnDesignPage == route.page = "design"

(***************************************************************************)
(* Interactive placement surface                                           *)
(***************************************************************************)
\* lockAspectRatio: the height the resized element gets for a new width
LockedHeight(w, dim) == Rat(w * dim[2], dim[1])

\* onDragStop
DragStopAutosaves(p) ==
    /\ OnDesignPage
    /\ renderedPosition' = <<p[1], p[2]>>
    /\ rnd' = [rnd EXCEPT !.x = p[1], !.y = p[2]]
    /\ touched' = TRUE
    /\ db' = [db EXCEPT ![configId].color = options.color, ![configId].model = options.model,
                        ![configId].material = options.material,
                        ![configId].finish = options.finish]
    /\ UNCHANGED <<paymentVars, authVars, uploadVars, checkoutVars, configId, imageDimensions, layout, route, mount,
                   options, renderedDimensions, isPending, subs>>

DragStop(p) ==
    /\ OnDesignPage
    /\ renderedPosition' = <<p[1], p[2]>>
    /\ rnd' = [rnd EXCEPT !.x = p[1], !.y = p[2]]
    /\ touched' = TRUE
    /\ UNCHANGED <<paymentVars, authVars, uploadVars, checkoutVars, configId, imageDimensions, layout, route, mount, options,
                   renderedDimensions, isPending, subs, db>>

\* what onResizeStop stores for an element whose style is width w, height h
ResizedDimensions(w, h) == <<Rat(ParseInt(w), 1), Rat(ParseInt(h), 1)>>

\* onResizeStop: ref.style holds the element's new size, {x, y} its position
ResizeStopKeepsPosition(e) ==
    LET w == Rat(e.width, 1)
        h == LockedHeight(e.width, imageDimensions)
    IN  /\ OnDesignPage
        /\ rnd' = [x |-> e.x, y |-> e.y, width |-> w, height |-> h]
        /\ renderedDimensions' = ResizedDimensions(w, h)
        /\ touched' = TRUE
        /\ UNCHANGED <<paymentVars, authVars, uploadVars, checkoutVars, configId, imageDimensions, layout, route,
                       mount, options, renderedPosition, isPending, subs, db>>

ResizeStop(e) ==
    LET w == Rat(e.width, 1)
        h == LockedHeight(e.width, imageDimensions)
    IN  /\ OnDesignPage
        /\ rnd' = [x |-> e.x, y |-> e.y, width |-> w, height |-> h]
        /\ renderedDimensions' = ResizedDimensions(w, h)
        /\ renderedPosition' = <<e.x, e.y>>
        /\ touched' = TRUE
        /\ UNCHANGED <<paymentVars, authVars, uploadVars, checkoutVars, configId, imageDimensions, layout, route, mount, options,
                       isPending, subs, db>>

(***************************************************************************)
(* Option selection                                                        *)
(***************************************************************************)
\* RadioGroup (color) onChange
SetColor(val) ==
    /\ OnDesignPage
    /\ options' = [options EXCEPT !.color = val]
    /\ UNCHANGED <<paymentVars, authVars, uploadVars, checkoutVars, configId, imageDimensions, layout, route, mount,
                   renderedDimensions, renderedPosition, rnd, touched, isPending, subs, db>>

\* DropdownMenuItem (model) onClick
SetModel(val) ==
    /\ OnDesignPage
    /\ options' = [options EXCEPT !.model = val]
    /\ UNCHANGED <<paymentVars, authVars, uploadVars, checkoutVars, configId, imageDimensions, layout, route, mount,
                   renderedDimensions, renderedPosition, rnd, touched, isPending, subs, db>>

\* RadioGroup onChange of [MATERIALS, FINISHES].map: name is "material" or "finish"
SetMaterialOrFinish(name, val) ==
    /\ OnDesignPage
    /\ options' = [options EXCEPT ![name] = val]
    /\ UNCHANGED <<paymentVars, authVars, uploadVars, checkoutVars, configId, imageDimensions, layout, route, mount,
                   renderedDimensions, renderedPosition, rnd, touched, isPending, subs, db>>

(***************************************************************************)
(* Submission                                                              *)
(***************************************************************************)
\* prop imageUrl of the mounted configurator
ImageUrl == db[configId].imageUrl

SaveConfigArgs ==
    [configId |-> configId, color |-> options.color, finish |-> options.finish,
     material |-> options.material, model |-> options.model]

\* Continue button: mutate(args) runs mutationFn, which starts
\* saveConfiguration() up to its first await and calls _saveConfig(args)
ContinueDrawsAtOnce(max) ==
    /\ OnDesignPage
    /\ ~isPending
    /\ Len(subs) < max
    /\ subs' = Append(subs,
                 [mount |-> mount,
                  args |-> SaveConfigArgs,
                  closure |-> RenderClosure,
                  image |-> ImageUrl,
                  rects |-> MeasuredRects,
                  actual |-> ActualOrigin(renderedPosition, MeasuredRects),
                  canvas |-> CanvasSize(MeasuredRects),
                  exp |-> "loading",
                  drawn |-> [x |-> ActualOrigin(renderedPosition, MeasuredRects)[1],
                            y |-> ActualOrigin(renderedPosition, MeasuredRects)[2],
                            width |-> renderedDimensions[1],
                            height |-> renderedDimensions[2]],
                  liveAtDraw |-> Null,
                  file |-> Null,
                  persist |-> "inflight",
                  mutation |-> "pending",
                  toasts |-> 0,
                  pushed |-> FALSE])
    /\ isPending' = TRUE
    /\ UNCHANGED <<paymentVars, authVars, uploadVars, checkoutVars, configId, imageDimensions, layout, route, mount, options,
                   renderedDimensions, renderedPosition, rnd, touched, db>>

Continue(max) ==
    /\ OnDesignPage
    /\ ~isPending
    /\ Len(subs) < max
    /\ subs' = Append(subs,
                 [mount |-> mount,
                  args |-> SaveConfigArgs,
                  closure |-> RenderClosure,
                  image |-> ImageUrl,
                  rects |-> MeasuredRects,
                  actual |-> ActualOrigin(renderedPosition, MeasuredRects),
                  canvas |-> CanvasSize(MeasuredRects),
                  exp |-> "loading",
                  drawn |-> Null,
                  liveAtDraw |-> Null,
                  file |-> Null,
                  persist |-> "inflight",
                  mutation |-> "pending",
                  toasts |-> 0,
                  pushed |-> FALSE])
    /\ isPending' = TRUE
    /\ UNCHANGED <<paymentVars, authVars, uploadVars, checkoutVars, configId, imageDimensions, layout, route, mount, options,
                   renderedDimensions, renderedPosition, rnd, touched, db>>

\* submission n moves from subs[n] to t
Move(n, t) ==
    /\ subs' = [subs EXCEPT ![n] = t]
    /\ route' = RouteAfter(subs[n], t)
    /\ isPending' = PendingAfter(n, t)

\* userImage.onload fires: draw, encode, build the file, start the upload.
\* encoded = FALSE: the canvas export throws and the catch block runs.
ImageLoaded(n, encoded) ==
    /\ n \in 1..Len(subs)
    /\ subs[n].exp = "loading"
    /\ LET s == [subs[n] EXCEPT !.drawn = DrawImageArgs(subs[n]),
                               !.liveAtDraw = RenderClosure]
       IN  Move(n, IF encoded
                   THEN [s EXCEPT !.file = EncodedFile(s), !.exp = "uploading"]
                   ELSE Settle(CatchExport(s)))
    /\ UNCHANGED <<paymentVars, authVars, uploadVars, checkoutVars, configId, imageDimensions, layout, mount, options,
                   renderedDimensions, renderedPosition, rnd, touched, db>>

\* the image fails to load or decode: only onload is set, so the promise
\* saveConfiguration awaits is never resolved and never rejected
ImageError(n) ==
    /\ n \in 1..Len(subs)
    /\ subs[n].exp = "loading"
    /\ subs' = [subs EXCEPT ![n].exp = "stuck"]
    /\ UNCHANGED <<paymentVars, authVars, uploadVars, checkoutVars, configId, imageDimensions, layout, route, mount, options,
                   renderedDimensions, renderedPosition, rnd, touched, isPending, db>>

\* imageUploader.onUploadComplete, update branch
UploadUpdateWholeRecord(table, id, url) ==
    [table EXCEPT ![id].croppedImageUrl = url,
                  ![id].color = "null", ![id].model = "null",
                  ![id].material = "null", ![id].finish = "null"]

UploadUpdate(table, id, url) == [table EXCEPT ![id].croppedImageUrl = url]

\* the upload of submission n's file succeeds: the server attaches the file to
\* the configuration and startUpload resolves
UploadComplete(n) ==
    /\ n \in 1..Len(subs)
    /\ subs[n].exp = "uploading"
    /\ db' = UploadUpdate(db, subs[n].args.configId, FileUrl(n))
    /\ Move(n, Settle([subs[n] EXCEPT !.exp = "ok"]))
    /\ UNCHANGED <<paymentVars, authVars, uploadVars, checkoutVars, configId, imageDimensions, layout, mount, options,
                   renderedDimensions, renderedPosition, rnd, touched>>

\* the upload fails: startUpload throws into the catch block
UploadFail(n) ==
    /\ n \in 1..Len(subs)
    /\ subs[n].exp = "uploading"
    /\ Move(n, Settle(CatchExport(subs[n])))
    /\ UNCHANGED <<paymentVars, authVars, uploadVars, checkoutVars, configId, imageDimensions, layout, mount, options,
                   renderedDimensions, renderedPosition, rnd, touched, db>>

\* saveConfig (./action): writes the four options to the configuration
SaveConfig(table, a) ==
    [table EXCEPT ![a.configId].color = a.color, ![a.configId].model = a.model,
                  ![a.configId].material = a.material, ![a.configId].finish = a.finish]

PersistOk(n) ==
    /\ n \in 1..Len(subs)
    /\ subs[n].persist = "inflight"
    /\ db' = SaveConfig(db, subs[n].args)
    /\ Move(n, Settle([subs[n] EXCEPT !.persist = "ok"]))
    /\ UNCHANGED <<paymentVars, authVars, uploadVars, checkoutVars, configId, imageDimensions, layout, mount, options,
                   renderedDimensions, renderedPosition, rnd, touched>>

PersistFail(n) ==
    /\ n \in 1..Len(subs)
    /\ subs[n].persist = "inflight"
    /\ Move(n, Settle([subs[n] EXCEPT !.persist = "failed"]))
    /\ UNCHANGED <<paymentVars, authVars, uploadVars, checkoutVars, configId, imageDimensions, layout, mount, options,
                   renderedDimensions, renderedPosition, rnd, touched, db>>

\* /configure/design?id=...: the page reads the configuration and mounts a
\* fresh DesignConfigurator
MountDesignConfigurator(id) ==
    /\ route' = [page |-> "design", id |-> id]
    /\ configId' = id
    /\ imageDimensions' = <<db[id].width, db[id].height>>
    /\ mount' = mount + 1
    /\ options' = InitialOptions
    /\ renderedDimensions' = InitialDimensions(imageDimensions')
    /\ renderedPosition' = InitialPosition
    /\ rnd' = RndDefault(imageDimensions')
    /\ touched' = FALSE
    /\ isPending' = FALSE

\* the user comes back from the preview page to the design page
OpenDesignPage ==
    /\ route.page = "preview"
    /\ MountDesignConfigurator(route.id)
    /\ UNCHANGED <<paymentVars, authVars, uploadVars, checkoutVars, layout, subs, db>>

(***************************************************************************)
(* Upload page                                                             *)
(***************************************************************************)
\* the accept prop of the Dropzone: MIME type -> file extensions
Accept ==
    [t \in {"image/png", "image/jpeg", "image/jpg"} |->
        CASE t = "image/png" -> {".png"}
          [] t = "image/jpeg" -> {".jpeg"}
          [] t = "image/jpg" -> {".jpg"}]

\* the Dropzone takes a file whose MIME type or extension the accept prop lists
AcceptsAll(f) == TRUE

Accepts(f) == \E t \in DOMAIN Accept : f.type = t \/ f.ext \in Accept[t]

OnUploadPage == route.page = "upload"

\* onDragEnter
DragEnter ==
    /\ OnUploadPage
    /\ ~isDragOver
    /\ isDragOver' = TRUE
    /\ UNCHANGED <<paymentVars, authVars, checkoutVars, configId, imageDimensions, layout, route, mount, options,
                   renderedDimensions, renderedPosition, rnd, touched, isPending, subs, db,
                   uploads, rejected>>

\* onDragLeave
DragLeave ==
    /\ OnUploadPage
    /\ isDragOver
    /\ isDragOver' = FALSE
    /\ UNCHANGED <<paymentVars, authVars, checkoutVars, configId, imageDimensions, layout, route, mount, options,
                   renderedDimensions, renderedPosition, rnd, touched, isPending, subs, db,
                   uploads, rejected>>

Drops == Len(uploads) + Len(rejected)

\* the Dropzone hands a file it does not accept to onDropRejected
DropRejected(f) ==
    /\ OnUploadPage
    /\ Drops < MaxDrops
    /\ ~Accepts(f)
    /\ isDragOver' = FALSE
    /\ rejected' = Append(rejected, f.name)
    /\ UNCHANGED <<paymentVars, authVars, checkoutVars, configId, imageDimensions, layout, route, mount, options,
                   renderedDimensions, renderedPosition, rnd, touched, isPending, subs, db,
                   uploads>>

\* the Dropzone hands a file it accepts to onDropAccepted:
\* startUpload(acceptedFiles, {configId: undefined})
DropAccepted(f) ==
    /\ OnUploadPage
    /\ Drops < MaxDrops
    /\ Accepts(f)
    /\ uploads' = Append(uploads, [file |-> f, status |-> "uploading", configId |-> "none"])
    /\ isDragOver' = FALSE
    /\ UNCHANGED <<paymentVars, authVars, checkoutVars, configId, imageDimensions, layout, route, mount, options,
                   renderedDimensions, renderedPosition, rnd, touched, isPending, subs, db,
                   rejected>>

\* the URL the upload service gives the file of upload u
SourceUrl(u) == <<"ufs", u, uploads[u].file.name>>

\* the id the database gives the next Configuration
NewId(table) == "cfg" \o ToString(Cardinality(DOMAIN table) + 1)

\* imageUploader.onUploadComplete, create branch (no configId in the input)
UploadCreateKeepsSize(table, url, meta) ==
    table @@ (NewId(table) :>
        [imageUrl |-> url, width |-> meta.width, height |-> meta.height,
         croppedImageUrl |-> Null,
         color |-> "null", model |-> "null", material |-> "null", finish |-> "null"])

UploadCreate(table, url, meta) ==
    table @@ (NewId(table) :>
        [imageUrl |-> url,
         width |-> IF meta.width # 0 THEN meta.width ELSE 500,
         height |-> IF meta.height # 0 THEN meta.height ELSE 500,
         croppedImageUrl |-> Null,
         color |-> "null", model |-> "null", material |-> "null", finish |-> "null"])

\* the upload of the source image succeeds: the server creates the
\* Configuration and returns its id as serverData
SourceUploadComplete(u) ==
    /\ u \in 1..Len(uploads)
    /\ uploads[u].status = "uploading"
    /\ db' = UploadCreate(db, SourceUrl(u), uploads[u].file)
    /\ uploads' = [uploads EXCEPT ![u].status = "stored", ![u].configId = NewId(db)]
    /\ UNCHANGED <<paymentVars, authVars, checkoutVars, configId, imageDimensions, layout, route, mount, options,
                   renderedDimensions, renderedPosition, rnd, touched, isPending, subs,
                   isDragOver, rejected>>

\* the upload fails, or the server cannot read the file back: no record
SourceUploadFail(u) ==
    /\ u \in 1..Len(uploads)
    /\ uploads[u].status = "uploading"
    /\ uploads' = [uploads EXCEPT ![u].status = "failed"]
    /\ UNCHANGED <<paymentVars, authVars, checkoutVars, configId, imageDimensions, layout, route, mount, options,
                   renderedDimensions, renderedPosition, rnd, touched, isPending, subs, db,
                   isDragOver, rejected>>

\* onClientUploadComplete: router.push(`/configure/design?id=${configId}`),
\* and the design page mounts the configurator on that configuration
ClientUploadCompleteLatest(u) ==
    /\ u \in 1..Len(uploads)
    /\ uploads[u].status = "stored"
    /\ uploads' = [uploads EXCEPT ![u].status = "done"]
    /\ MountDesignConfigurator("cfg" \o ToString(Cardinality(DOMAIN db)))
    /\ UNCHANGED <<paymentVars, authVars, checkoutVars, layout, subs, db, isDragOver, rejected>>

ClientUploadComplete(u) ==
    /\ u \in 1..Len(uploads)
    /\ uploads[u].status = "stored"
    /\ uploads' = [uploads EXCEPT ![u].status = "done"]
    /\ MountDesignConfigurator(uploads[u].configId)
    /\ UNCHANGED <<paymentVars, authVars, checkoutVars, layout, subs, db, isDragOver, rejected>>

UploadPage ==
    \/ DragEnter
    \/ DragLeave
    \/ \E f \in Files : DropRejected(f)
    \/ \E f \in Files : DropAccepted(f)
    \/ \E u \in 1..MaxDrops : SourceUploadComplete(u)
    \/ \E u \in 1..MaxDrops : SourceUploadFail(u)
    \/ \E u \in 1..MaxDrops : ClientUploadComplete(u)

(***************************************************************************)
(* createCheckoutSession: each await is a step of its own, so calls         *)
(* interleave between the steps                                            *)
(***************************************************************************)
\* the user signs in or out at the auth provider
SignIn(u) ==
    /\ session = "none"
    /\ session' = u
    /\ UNCHANGED <<paymentVars, authVars, uploadVars, configId, imageDimensions, layout, route, mount, options,
                   renderedDimensions, renderedPosition, rnd, touched, isPending, subs, db,
                   users, orders, calls, stripe>>

SignOut ==
    /\ session # "none"
    /\ session' = "none"
    /\ UNCHANGED <<paymentVars, authVars, uploadVars, configId, imageDimensions, layout, route, mount, options,
                   renderedDimensions, renderedPosition, rnd, touched, isPending, subs, db,
                   users, orders, calls, stripe>>

\* @/config/products: prices in cents
BASE_PRICE == 1400

TexturedPrice == 300

PolycarbonatePrice == 500

PRODUCT_PRICES ==
    [material |-> [silicone |-> 0, polycarbonate |-> PolycarbonatePrice],
     finish |-> [smooth |-> 0, textured |-> TexturedPrice]]

\* createCheckoutSession: the price of configuration c, in cents
PriceIgnoresFinish(c) ==
    BASE_PRICE + (IF c.material = "polycarbonate"
                  THEN PRODUCT_PRICES.material.polycarbonate ELSE 0)

Price(c) ==
    LET base == BASE_PRICE
        withFinish == IF c.finish = "textured"
                      THEN base + PRODUCT_PRICES.finish.textured ELSE base
    IN  IF c.material = "polycarbonate"
        THEN withFinish + PRODUCT_PRICES.material.polycarbonate ELSE withFinish

\* DesignPreview: totalPrice, the Order Total of the preview page
TotalPrice(c) ==
    LET withMaterial == IF c.material = "polycarbonate"
                        THEN BASE_PRICE + PRODUCT_PRICES.material.polycarbonate
                        ELSE BASE_PRICE
    IN  IF c.finish = "textured"
        THEN withMaterial + PRODUCT_PRICES.finish.textured ELSE withMaterial

\* call k moves to c; nothing else changes but what the step names
Step(k, c) ==
    /\ calls' = [calls EXCEPT ![k] = c]
    /\ UNCHANGED <<paymentVars, authVars, uploadVars, configId, imageDimensions, layout, route, mount, options,
                   renderedDimensions, renderedPosition, rnd, touched, isPending, subs, db,
                   session>>

At(k, pc) == k \in 1..Len(calls) /\ calls[k].pc = pc

\* createCheckoutSession({configId}) is called
StartCheckout(id) ==
    /\ Len(calls) < MaxCalls
    /\ calls' = Append(calls, [configId |-> id, pc |-> "findConfiguration",
                               configuration |-> Null, user |-> "none", order |-> 0,
                               created |-> FALSE, product |-> 0, session |-> 0,
                               error |-> "none"])
    /\ UNCHANGED <<paymentVars, authVars, uploadVars, configId, imageDimensions, layout, route, mount, options,
                   renderedDimensions, renderedPosition, rnd, touched, isPending, subs, db,
                   session, users, orders, stripe>>

\* db.configuration.findUnique, and the throw when there is none
FindConfiguration(k) ==
    /\ At(k, "findConfiguration")
    /\ Step(k, IF calls[k].configId \in DOMAIN db
               THEN [calls[k] EXCEPT !.pc = "getUser",
                                     !.configuration = db[calls[k].configId]]
               ELSE [calls[k] EXCEPT !.pc = "failed",
                                     !.error = "No such configuration found"])
    /\ UNCHANGED <<paymentVars, authVars, users, orders, stripe>>

\* getKindeServerSession().getUser(), and the throw when nobody is signed in
GetUserUnchecked(k) ==
    /\ At(k, "getUser")
    /\ Step(k, [calls[k] EXCEPT !.pc = "upsertUser", !.user = session])
    /\ UNCHANGED <<paymentVars, authVars, users, orders, stripe>>

GetUser(k) ==
    /\ At(k, "getUser")
    /\ Step(k, IF session # "none"
               THEN [calls[k] EXCEPT !.pc = "upsertUser", !.user = session]
               ELSE [calls[k] EXCEPT !.pc = "failed",
                                     !.error = "You need to be logged in"])
    /\ UNCHANGED <<paymentVars, authVars, users, orders, stripe>>

\* db.user.upsert
UpsertUser(k) ==
    /\ At(k, "upsertUser")
    /\ users' = users \cup {calls[k].user}
    /\ Step(k, [calls[k] EXCEPT !.pc = "findOrder"])
    /\ UNCHANGED <<paymentVars, authVars, orders, stripe>>

\* db.order.findFirst({where: {userId, configurationId}}): the id of the first
\* matching order, 0 when there is none
FindFirstOrder(table, userId, configurationId) ==
    LET hits == {i \in 1..Len(table) : /\ table[i].userId = userId
                                       /\ table[i].configurationId = configurationId}
    IN  IF hits = {} THEN 0 ELSE CHOOSE i \in hits : \A j \in hits : i <= j

FindOrder(k) ==
    /\ At(k, "findOrder")
    /\ LET existingOrder == FindFirstOrder(orders, calls[k].user, calls[k].configId)
       IN  Step(k, IF existingOrder # 0
                   THEN [calls[k] EXCEPT !.pc = "createProduct", !.order = existingOrder]
                   ELSE [calls[k] EXCEPT !.pc = "createOrder"])
    /\ UNCHANGED <<paymentVars, authVars, users, orders, stripe>>

\* the Order db.order.create makes: unpaid, awaiting shipment, no address
NewOrder(userId, configurationId, price) ==
    [amount |-> Rat(price, 100), userId |-> userId,
     configurationId |-> configurationId, isPaid |-> FALSE,
     status |-> "awaiting_shipment",
     shippingAddress |-> Null, billingAddress |-> Null]

\* db.order.create, reached when findFirst found nothing
CreateOrder(k) ==
    /\ At(k, "createOrder")
    /\ orders' = Append(orders, NewOrder(calls[k].user, calls[k].configId,
                                          Price(calls[k].configuration)))
    /\ Step(k, [calls[k] EXCEPT !.pc = "createProduct", !.order = Len(orders) + 1,
                                !.created = TRUE])
    /\ UNCHANGED <<paymentVars, authVars, users, stripe>>

\* stripe.products.create
CreateProduct(k) ==
    /\ At(k, "createProduct")
    /\ stripe' = [stripe EXCEPT !.products = Append(@,
                     [images |-> <<calls[k].configuration.imageUrl>>,
                      unit_amount |-> Price(calls[k].configuration)])]
    /\ Step(k, [calls[k] EXCEPT !.pc = "createSession",
                                !.product = Len(stripe.products) + 1])
    /\ UNCHANGED <<paymentVars, authVars, users, orders>>

\* stripe.checkout.sessions.create, and the return of the session's url
CreateSession(k) ==
    /\ At(k, "createSession")
    /\ stripe' = [stripe EXCEPT !.sessions = Append(@,
                     [successOrderId |-> calls[k].order,
                      cancelConfigId |-> calls[k].configId,
                      metadata |-> [userId |-> calls[k].user, orderId |-> calls[k].order],
                      price |-> calls[k].product])]
    /\ Step(k, [calls[k] EXCEPT !.pc = "done", !.session = Len(stripe.sessions) + 1])
    /\ UNCHANGED <<paymentVars, authVars, users, orders>>

\* stripe.products.create or stripe.checkout.sessions.create throws
StripeFails(k) ==
    /\ k \in 1..Len(calls)
    /\ calls[k].pc \in {"createProduct", "createSession"}
    /\ Step(k, [calls[k] EXCEPT !.pc = "failed", !.error = "stripe"])
    /\ UNCHANGED <<paymentVars, authVars, users, orders, stripe>>

Checkout ==
    \/ \E u \in UserIds : SignIn(u)
    \/ SignOut
    \/ \E id \in CheckoutIds : StartCheckout(id)
    \/ \E k \in 1..MaxCalls : FindConfiguration(k)
    \/ \E k \in 1..MaxCalls : GetUser(k)
    \/ \E k \in 1..MaxCalls : UpsertUser(k)
    \/ \E k \in 1..MaxCalls : FindOrder(k)
    \/ \E k \in 1..MaxCalls : CreateOrder(k)
    \/ \E k \in 1..MaxCalls : CreateProduct(k)
    \/ \E k \in 1..MaxCalls : CreateSession(k)
    \/ \E k \in 1..MaxCalls : StripeFails(k)

(***************************************************************************)
(* Payment webhook (POST) and the dashboard's order status                 *)
(***************************************************************************)
\* the request the payment service sends when user u has paid order o
PaidRequest(u, o) ==
    [signature |-> "valid", type |-> "checkout.session.completed",
     email |-> "buyer@mail", userId |-> u, orderId |-> o, shipping |-> TRUE]

\* the requests the endpoint can receive: the paid request of order 1, of an
\* order that does not exist, and the paid request with one thing wrong
WebhookRequests ==
    LET r == PaidRequest("u1", 1) IN
    {r, PaidRequest("u2", 2), PaidRequest("u1", 99),
     [r EXCEPT !.signature = "none"], [r EXCEPT !.signature = "forged"],
     [r EXCEPT !.type = "payment_intent.created"], [r EXCEPT !.email = "none"],
     [r EXCEPT !.userId = "none"], [r EXCEPT !.orderId = 0],
     [r EXCEPT !.shipping = FALSE]}

\* the handler up to its first database call: 0 when the request gets that
\* far, else the status of the response
ValidateUnsigned(r) ==
    IF r.signature = "none" THEN 400
    ELSE IF r.type # "checkout.session.completed" THEN 200
    ELSE IF r.email = "none" THEN 500
    ELSE IF r.userId = "none" \/ r.orderId = 0 THEN 500
    ELSE IF ~r.shipping THEN 500
    ELSE 0

Validate(r) ==
    IF r.signature = "none" THEN 400
    ELSE IF r.signature # "valid" THEN 500
    ELSE IF r.type # "checkout.session.completed" THEN 200
    ELSE IF r.email = "none" THEN 500
    ELSE IF r.userId = "none" \/ r.orderId = 0 THEN 500
    ELSE IF ~r.shipping THEN 500
    ELSE 0

\* the response with status st
Respond(h, st) == [h EXCEPT !.pc = "responded", !.status = st, !.ok = (st = 200)]

\* POST: a request arrives and runs to its first database call or to its
\* response
Receive(r) ==
    /\ Len(hooks) < MaxHooks
    /\ LET h == [req |-> r, pc |-> "update", status |-> 0, ok |-> FALSE, updated |-> FALSE]
       IN  hooks' = Append(hooks, IF Validate(r) = 0 THEN h ELSE Respond(h, Validate(r)))
    /\ UNCHANGED <<authVars, uploadVars, checkoutVars, configId, imageDimensions, layout,
                   route, mount, options, renderedDimensions, renderedPosition, rnd,
                   touched, isPending, subs, db, emails, thankYou>>

\* hook h moves to t
Handle(h, t) ==
    /\ hooks' = [hooks EXCEPT ![h] = t]
    /\ UNCHANGED <<authVars, uploadVars, configId, imageDimensions, layout,
                   route, mount, options, renderedDimensions, renderedPosition, rnd,
                   touched, isPending, subs, db, session, users, calls, stripe, thankYou>>

\* the addresses the update stores, taken from the session of hook h
Address(h, kind) == <<kind, h>>

\* db.order.update({where: {id: orderId}, data: {isPaid: true, ...}}); it
\* throws when no order has that id
UpdateOrder(h) ==
    /\ h \in 1..Len(hooks)
    /\ hooks[h].pc = "update"
    /\ LET o == hooks[h].req.orderId IN
       IF o \in 1..Len(orders)
       THEN /\ orders' = [orders EXCEPT ![o].isPaid = TRUE,
                                        ![o].shippingAddress = Address(h, "shipping"),
                                        ![o].billingAddress = Address(h, "billing")]
            /\ Handle(h, [hooks[h] EXCEPT !.pc = "email", !.updated = TRUE])
       ELSE /\ orders' = orders
            /\ Handle(h, Respond(hooks[h], 500))
    /\ UNCHANGED emails

\* the database call fails
UpdateOrderFails(h) ==
    /\ h \in 1..Len(hooks)
    /\ hooks[h].pc = "update"
    /\ Handle(h, Respond(hooks[h], 500))
    /\ UNCHANGED <<orders, emails>>

\* await resend.emails.send(...): the mail service accepts the email
EmailSent(h) ==
    /\ h \in 1..Len(hooks)
    /\ hooks[h].pc = "email"
    /\ emails' = Append(emails, [hook |-> h, to |-> hooks[h].req.email,
                                 orderId |-> hooks[h].req.orderId])
    /\ Handle(h, Respond(hooks[h], 200))
    /\ UNCHANGED orders

\* the call throws
EmailThrows(h) ==
    /\ h \in 1..Len(hooks)
    /\ hooks[h].pc = "email"
    /\ Handle(h, Respond(hooks[h], 500))
    /\ UNCHANGED <<orders, emails>>

\* the call resolves with {data: null, error}: the handler does not look at
\* the value the call resolves with
EmailNotSent(h) ==
    /\ h \in 1..Len(hooks)
    /\ hooks[h].pc = "email"
    /\ Handle(h, Respond(hooks[h], 200))
    /\ UNCHANGED <<orders, emails>>

OrderStatuses == {"awaiting_shipment", "fulfilled", "shipped"}

\* dashboard: changeOrderStatus({id, newStatus})
ChangeOrderStatus(o, newStatus) ==
    /\ o \in 1..Len(orders)
    /\ orders[o].status # newStatus
    /\ orders' = [orders EXCEPT ![o].status = newStatus]
    /\ UNCHANGED <<paymentVars, authVars, uploadVars, configId, imageDimensions, layout,
                   route, mount, options, renderedDimensions, renderedPosition, rnd,
                   touched, isPending, subs, db, session, users, calls, stripe>>

Webhook ==
    \/ \E r \in WebhookRequests : Receive(r)
    \/ \E h \in 1..MaxHooks : UpdateOrder(h)
    \/ \E h \in 1..MaxHooks : UpdateOrderFails(h)
    \/ \E h \in 1..MaxHooks : EmailSent(h)
    \/ \E h \in 1..MaxHooks : EmailThrows(h)
    \/ \E h \in 1..MaxHooks : EmailNotSent(h)

(***************************************************************************)
(* Check out without a session, and the auth callback page                 *)
(***************************************************************************)
\* the preview page of configuration id is opened
OpenPreview(id) ==
    /\ route.page \in {"preview", "home"}
    /\ route # [page |-> "preview", id |-> id]
    /\ route' = [page |-> "preview", id |-> id]
    /\ UNCHANGED <<paymentVars, authVars, uploadVars, checkoutVars, configId,
                   imageDimensions, layout, mount, options, renderedDimensions,
                   renderedPosition, rnd, touched, isPending, subs, db>>

\* handleCheckout: with a user the payment session is asked for, without one
\* the configuration id is stored and the login modal is opened
HandleCheckout ==
    /\ route.page = "preview"
    /\ IF session # "none"
       THEN StartCheckout(route.id)
       ELSE /\ storage' = route.id
            /\ isLoginModalOpen' = TRUE
            /\ ~(storage = route.id /\ isLoginModalOpen)
            /\ UNCHANGED <<paymentVars, uploadVars, checkoutVars, configId,
                           imageDimensions, layout, route, mount, options,
                           renderedDimensions, renderedPosition, rnd, touched,
                           isPending, subs, db, callback>>

\* the browser loads /auth_callback: the page mounts, its first effect reads
\* the stored id into configId, and the query starts; the stored id is not read
OpenCallbackNoStoredId ==
    /\ route.page # "auth_callback"
    /\ route' = [page |-> "auth_callback", id |-> "none"]
    /\ callback' = [open |-> TRUE, configId |-> "none", data |-> "undefined",
                    error |-> "none", pushes |-> <<>>]
    /\ isLoginModalOpen' = FALSE
    /\ UNCHANGED <<paymentVars, uploadVars, checkoutVars, configId, imageDimensions,
                   layout, mount, options, renderedDimensions, renderedPosition, rnd,
                   touched, isPending, subs, db, storage>>

OpenCallback ==
    /\ route.page # "auth_callback"
    /\ route' = [page |-> "auth_callback", id |-> "none"]
    /\ callback' = [open |-> TRUE, configId |-> storage, data |-> "undefined",
                    error |-> "none", pushes |-> <<>>]
    /\ isLoginModalOpen' = FALSE
    /\ UNCHANGED <<paymentVars, uploadVars, checkoutVars, configId, imageDimensions,
                   layout, mount, options, renderedDimensions, renderedPosition, rnd,
                   touched, isPending, subs, db, storage>>

\* getAuthStatus settles: it throws without a user and is retried; with a user
\* it makes sure the user is in the database and returns {success: true}, and
\* the second effect of the page runs on the new data
AuthStatusSettles ==
    /\ callback.open /\ callback.data = "undefined"
    /\ IF session = "none"
       THEN /\ callback.error = "none"
            /\ callback' = [callback EXCEPT !.error = "Invalid user data"]
            /\ UNCHANGED <<users, storage, route>>
       ELSE LET to == IF callback.configId # "none"
                      THEN [page |-> "preview", id |-> callback.configId]
                      ELSE [page |-> "home", id |-> "none"]
            IN  /\ users' = users \cup {session}
                /\ callback' = [callback EXCEPT !.open = FALSE, !.data = "success",
                                                !.error = "none",
                                                !.pushes = Append(@, to)]
                /\ storage' = IF callback.configId # "none" THEN "none" ELSE storage
                /\ route' = to
    /\ UNCHANGED <<paymentVars, uploadVars, configId, imageDimensions, layout, mount,
                   options, renderedDimensions, renderedPosition, rnd, touched,
                   isPending, subs, db, session, orders, calls, stripe,
                   isLoginModalOpen>>

(***************************************************************************)
(* Thank-you page: getPaymentStatus and the query of the page              *)
(***************************************************************************)
\* order ids a thank-you URL can carry: the two orders and an unknown one
OrderIds == {1, 2, 99}

\* db.order.findFirst({where: {id: orderId}}): the owner is not looked at
GetPaymentStatusAnyOwner(user, orderId) ==
    IF user = "none" THEN [kind |-> "throw", error |-> "You need to be logged in to view this page."]
    ELSE IF ~(orderId \in 1..Len(orders))
    THEN [kind |-> "throw", error |-> "This order does not exist."]
    ELSE IF orders[orderId].isPaid
    THEN [kind |-> "order", id |-> orderId, order |-> orders[orderId]]
    ELSE [kind |-> "false"]

\* getPaymentStatus({orderId}) called with the session of user
GetPaymentStatus(user, orderId) ==
    IF user = "none" THEN [kind |-> "throw", error |-> "You need to be logged in to view this page."]
    ELSE IF ~(orderId \in 1..Len(orders) /\ orders[orderId].userId = user)
    THEN [kind |-> "throw", error |-> "This order does not exist."]
    ELSE IF orders[orderId].isPaid
    THEN [kind |-> "order", id |-> orderId, order |-> orders[orderId]]
    ELSE [kind |-> "false"]

\* what the page shows for the data of its query
Shows(data) ==
    CASE data.kind = "undefined" -> "Loading your order..."
      [] data.kind = "false" -> "Verifying your payment..."
      [] OTHER -> "order"

\* a step of the thank-you page
ThankYouStep(t) ==
    /\ thankYou' = t
    /\ UNCHANGED <<authVars, uploadVars, checkoutVars, configId, imageDimensions, layout,
                   route, mount, options, renderedDimensions, renderedPosition, rnd,
                   touched, isPending, subs, db, hooks, emails>>

\* the browser loads /thank-you?orderId=o: the query starts fetching
OpenThankYou(o) ==
    /\ ~thankYou.open
    /\ ThankYouStep([open |-> TRUE, orderId |-> o, data |-> [kind |-> "undefined"],
                     fetching |-> TRUE, error |-> "none"])

\* the query function settles: a thrown error is retried (retry: true), a
\* returned value, false included, ends the fetch
QuerySettles ==
    /\ thankYou.open /\ thankYou.fetching
    /\ LET r == GetPaymentStatus(session, thankYou.orderId) IN
       IF r.kind = "throw"
       THEN ThankYouStep([thankYou EXCEPT !.error = r.error])
       ELSE ThankYouStep([thankYou EXCEPT !.data = r, !.fetching = FALSE, !.error = "none"])

\* the user comes back to the window: the query, stale at once, fetches again
WindowFocus ==
    /\ thankYou.open /\ ~thankYou.fetching
    /\ ThankYouStep([thankYou EXCEPT !.fetching = TRUE])

ThankYouPage ==
    \/ \E o \in OrderIds : OpenThankYou(o)
    \/ QuerySettles
    \/ WindowFocus

\* the browser lays the page out again (window resize, scroll): the bounding
\* rectangles change, the Placement State does not
Relayout(l) ==
    /\ OnDesignPage
    /\ l # layout
    /\ layout' = l
    /\ UNCHANGED <<paymentVars, authVars, uploadVars, checkoutVars, configId, imageDimensions, route, mount, options, renderedDimensions,
                   renderedPosition, rnd, touched, isPending, subs, db>>

Placement ==
    \/ \E p \in DragStops : DragStop(p)
    \/ \E e \in ResizeStops : ResizeStop(e)
    \/ \E l \in Layouts : Relayout(l)

Selection ==
    \/ \E v \in ColorPicks : SetColor(v)
    \/ \E v \in ModelPicks : SetModel(v)
    \/ \E v \in MATERIALS : SetMaterialOrFinish("material", v)
    \/ \E v \in FINISHES : SetMaterialOrFinish("finish", v)

\* the submission pipeline with at most max submissions
Pipeline(max) ==
    \/ Continue(max)
    \/ \E n \in 1..max, encoded \in BOOLEAN : ImageLoaded(n, encoded)
    \/ \E n \in 1..max : ImageError(n)
    \/ \E n \in 1..max : UploadComplete(n)
    \/ \E n \in 1..max : UploadFail(n)
    \/ \E n \in 1..max : PersistOk(n)
    \/ \E n \in 1..max : PersistFail(n)
    \/ OpenDesignPage

Next == Selection \/ Pipeline(MaxSubmissions)

\* the submission pipeline with option selection, on one image and one layout
Spec == Init /\ [][Next]_vars

\* the placement surface and the export, over every image size and layout
InitPlacement ==
    InitWith({<<TallImage, CenteredLayout>>, <<WideImage, ScrolledLayout>>}, {"cfg1"})

NextPlacement == Placement \/ Pipeline(MaxExports)

PlacementSpec == InitPlacement /\ [][NextPlacement]_vars

\* the pipeline alone; the browser ends every image load with a load or an
\* error event, and every network call ends
InitFair ==
    InitWith({<<TallImage, CenteredLayout>>, <<TallImage, ScrolledLayout>>}, ConfigIds)

FairSpec ==
    /\ InitFair
    /\ [][Pipeline(MaxSubmissions)]_vars
    /\ \A n \in 1..MaxSubmissions :
        /\ WF_vars(ImageLoaded(n, TRUE) \/ ImageLoaded(n, FALSE) \/ ImageError(n))
        /\ WF_vars(UploadComplete(n) \/ UploadFail(n))
        /\ WF_vars(PersistOk(n) \/ PersistFail(n))

\* one configurator, option selection and the two halves of a submission
InitOptions == InitWith({<<TallImage, CenteredLayout>>}, {"cfg1"})

NextOptions == Selection \/ Pipeline(MaxExports)

OptionsSpec == InitOptions /\ [][NextOptions]_vars

\* repeated exports of one configurator while the image is resized
InitRepeat == InitWith({<<WideImage, CenteredLayout>>}, {"cfg1"})

NextRepeat == (\E e \in ResizeStops : ResizeStop(e)) \/ Pipeline(MaxRuns)

RepeatSpec == InitRepeat /\ [][NextRepeat]_vars

\* the upload page, then the configurator and the upload of its export
InitUpload ==
    /\ configId = "none"
    /\ imageDimensions = <<0, 0>>
    /\ layout = CenteredLayout
    /\ route = [page |-> "upload", id |-> "none"]
    /\ mount = 0
    /\ options = InitialOptions
    /\ renderedDimensions = InitialDimensions(imageDimensions)
    /\ renderedPosition = InitialPosition
    /\ rnd = RndDefault(imageDimensions)
    /\ touched = FALSE
    /\ isPending = FALSE
    /\ subs = <<>>
    /\ db = <<>>
    /\ UploadIdle
    /\ CheckoutIdle
    /\ PaymentIdle
    /\ AuthIdle

NextUpload ==
    \/ UploadPage
    \/ Continue(MaxExports)
    \/ \E n \in 1..MaxExports : ImageLoaded(n, TRUE)
    \/ \E n \in 1..MaxExports : UploadComplete(n)
    \/ \E n \in 1..MaxExports : UploadFail(n)
    \/ \E n \in 1..MaxExports : PersistOk(n)

UploadSpec == InitUpload /\ [][NextUpload]_vars

\* a configuration that was submitted with material m and finish f
Submitted(id, m, f) ==
    [NewConfiguration(id, TallImage) EXCEPT
        !.croppedImageUrl = FileUrl(1), !.color = "black", !.model = "iphonex",
        !.material = m, !.finish = f]

\* no configurator is mounted
NoConfigurator ==
    /\ configId = "none"
    /\ imageDimensions = <<0, 0>>
    /\ layout = CenteredLayout
    /\ mount = 0
    /\ options = InitialOptions
    /\ renderedDimensions = InitialDimensions(imageDimensions)
    /\ renderedPosition = InitialPosition
    /\ rnd = RndDefault(imageDimensions)
    /\ touched = FALSE
    /\ isPending = FALSE
    /\ subs = <<>>
    /\ UploadIdle

\* the preview page of a submitted configuration, for each choice of
\* material and finish
OnPreviewOfSubmitted ==
    /\ NoConfigurator
    /\ route = [page |-> "preview", id |-> "cfg1"]
    /\ \E m \in MATERIALS, f \in FINISHES :
           db = [id \in ConfigIds |-> Submitted(id, m, f)]

\* two users have each an unpaid order for the configuration
TwoUnpaidOrders ==
    /\ session = "none"
    /\ users = {"u1", "u2"}
    /\ orders = <<NewOrder("u1", "cfg1", Price(db["cfg1"])),
                  NewOrder("u2", "cfg1", Price(db["cfg1"]))>>
    /\ calls = <<>>
    /\ stripe = [products |-> <<>>, sessions |-> <<>>]

InitWebhook == OnPreviewOfSubmitted /\ TwoUnpaidOrders /\ PaymentIdle /\ AuthIdle

NextWebhook ==
    \/ Webhook
    \/ \E o \in 1..2, st \in OrderStatuses : ChangeOrderStatus(o, st)

WebhookSpec == InitWebhook /\ [][NextWebhook]_vars

\* the upload page alone; the client callback of a finished upload is called
UploadPageSpec ==
    /\ InitUpload
    /\ [][UploadPage]_vars
    /\ \A u \in 1..MaxDrops : WF_vars(ClientUploadComplete(u))

\* a visitor on the preview page of a submitted configuration
InitAuth ==
    /\ NoConfigurator
    /\ route \in [page : {"preview"}, id : ConfigIds]
    /\ db = [id \in ConfigIds |-> Submitted(id, "silicone", "smooth")]
    /\ CheckoutIdle /\ PaymentIdle /\ AuthIdle

NextAuth ==
    \/ \E u \in UserIds : SignIn(u)
    \/ SignOut
    \/ \E id \in ConfigIds : OpenPreview(id)
    \/ HandleCheckout
    \/ OpenCallback
    \/ AuthStatusSettles

AuthSpec == InitAuth /\ [][NextAuth]_vars

\* the thank-you page while the payments of the two orders arrive
NextThankYou ==
    \/ \E u \in UserIds : SignIn(u)
    \/ SignOut
    \/ ThankYouPage
    \/ \E r \in {PaidRequest("u1", 1), PaidRequest("u2", 2)} : Receive(r)
    \/ \E h \in 1..MaxHooks : UpdateOrder(h) \/ UpdateOrderFails(h)
    \/ \E h \in 1..MaxHooks : EmailSent(h) \/ EmailThrows(h) \/ EmailNotSent(h)

ThankYouSpec == InitWebhook /\ [][NextThankYou]_vars

\* the query function settles when called, and the webhook handler goes on
\* when its database call can succeed; the user need not come back to the window
ThankYouFairSpec ==
    /\ ThankYouSpec
    /\ WF_vars(QuerySettles)
    /\ \A h \in 1..MaxHooks : WF_vars(UpdateOrder(h)) /\ WF_vars(EmailSent(h))

\* checkout calls on a submitted configuration
InitCheckout == OnPreviewOfSubmitted /\ CheckoutIdle /\ PaymentIdle /\ AuthIdle

CheckoutSpec == InitCheckout /\ [][Checkout]_vars

(***************************************************************************)
(* Properties                                                              *)
(***************************************************************************)
Started == 1..Len(subs)

ExportEnded(s) == s.exp \in {"ok", "failed"}

PersistEnded(s) == s.persist \in {"ok", "failed"}

InFlight(s) == s.exp \in {"loading", "uploading"} \/ s.persist = "inflight"

\* C1: when exactly one of export and persistence has failed, the submission
\* is reported as failed and the page does not navigate to the preview.
C1_JointFailureAtomicity ==
    \A n \in Started :
        LET s == subs[n] IN
        (ExportEnded(s) /\ PersistEnded(s)
            /\ ((s.exp = "failed") # (s.persist = "failed")))
        => (s.mutation = "error" /\ ~s.pushed)

\* C2: every submission settles: the pending state of the Continue button
\* always clears again.
C2_EverySubmissionSettles == isPending ~> ~isPending

\* C3: on the preview page reached from the configurator, the submission that
\* navigated has uploaded its image and persisted its options, the record has
\* a cropped image and the submitted options, and the route carries the
\* page's configId.
C3_NavigationAfterBothSucceeded ==
    route.page = "preview" =>
        LET s == Latest
            c == db[route.id]
        IN  /\ s.pushed
            /\ route.id = s.args.configId
            /\ s.exp = "ok" /\ s.persist = "ok"
            /\ c.croppedImageUrl # Null
            /\ c.color = s.args.color /\ c.model = s.args.model
            /\ c.material = s.args.material /\ c.finish = s.args.finish

\* C4: a submission that has ended with a failed half has produced exactly
\* one error notification.
C4_ExactlyOneNotification ==
    \A n \in Started :
        LET s == subs[n] IN
        (ExportEnded(s) /\ PersistEnded(s)
            /\ (s.exp = "failed" \/ s.persist = "failed"))
        => s.toasts = 1

\* C5: what an export draws is the placement in effect when the submission was
\* triggered: origin and size come from the position, dimensions and layout
\* rectangles of that moment, whatever drag-stop, resize-stop or new layout
\* arrived before the draw.
C5_ExportDrawsTriggerPlacement ==
    \A n \in Started :
        LET s == subs[n] IN
        s.drawn # Null =>
            /\ s.drawn.x = s.closure.position[1] - (s.rects.caseLeft - s.rects.containerLeft)
            /\ s.drawn.y = s.closure.position[2] - (s.rects.caseTop - s.rects.containerTop)
            /\ s.drawn.width = s.closure.dimensions[1]
            /\ s.drawn.height = s.closure.dimensions[2]

\* an export has drawn after both the position and the dimensions were changed
\* while it waited for the image
C5_ManipulatedWhileSuspended ==
    \E n \in Started :
        /\ subs[n].drawn # Null
        /\ subs[n].liveAtDraw.position # subs[n].closure.position
        /\ subs[n].liveAtDraw.dimensions # subs[n].closure.dimensions
        /\ subs[n].exp = "uploading"

\* C6: at most one submission of the mounted configurator is in flight; the
\* Continue button is disabled exactly while the latest submission is pending.
C6_AtMostOneInFlight ==
    /\ Cardinality({n \in Started : subs[n].mount = mount /\ InFlight(subs[n])}) <= 1
    /\ (subs # <<>> /\ Latest.mount = mount) => (isPending <=> Latest.mutation = "pending")

\* C7: once two or more submissions have all ended and the latest one both
\* uploaded and persisted, the record holds the latest submission's options
\* and cropped image and nothing of an earlier one.
C7_LatestSubmissionWins ==
    (Len(subs) >= 2 /\ (\A n \in Started : ~InFlight(subs[n]))
        /\ Latest.exp = "ok" /\ Latest.persist = "ok")
    => LET c == db[Latest.args.configId] IN
       /\ c.croppedImageUrl = FileUrl(Len(subs))
       /\ c.color = Latest.args.color /\ c.model = Latest.args.model
       /\ c.material = Latest.args.material /\ c.finish = Latest.args.finish

\* C8: the Placement State's width / height equals the image's native
\* width / height, to within one part in a thousand.
C8_AspectRatioLocked ==
    LET w == renderedDimensions[1]
        h == renderedDimensions[2]
        num == w[1] * h[2]      \* w / h = num / den
        den == w[2] * h[1]
        W == imageDimensions[1]
        H == imageDimensions[2]
    IN  /\ den > 0
        /\ 1000 * Abs(num * H - W * den) <= den * H

\* C9: the crop origin of every export is the trigger position minus the
\* silhouette's offset in the viewport; viewport (0,0), silhouette (40,60),
\* position (150,205) give (110,145).
C9_CropOrigin ==
    \A n \in Started :
        LET s == subs[n]
            x == s.closure.position[1]
            y == s.closure.position[2]
            vp == [left |-> s.rects.containerLeft, top |-> s.rects.containerTop]
            sil == [left |-> s.rects.caseLeft, top |-> s.rects.caseTop]
        IN  /\ s.actual = <<x - (sil.left - vp.left), y - (sil.top - vp.top)>>
            /\ (/\ vp.left = 0 /\ vp.top = 0 /\ sil.left = 40 /\ sil.top = 60
                /\ x = 150 /\ y = 205) => s.actual = <<110, 145>>
            /\ s.drawn # Null => (s.drawn.x = s.actual[1] /\ s.drawn.y = s.actual[2])

\* the spec's example has been exported
C9_SpecExampleDrawn ==
    \E n \in Started :
        /\ subs[n].rects.containerLeft = 0 /\ subs[n].rects.containerTop = 0
        /\ subs[n].rects.caseLeft = 40 /\ subs[n].rects.caseTop = 60
        /\ subs[n].closure.position = <<150, 205>>
        /\ subs[n].drawn # Null
        /\ subs[n].drawn.x = 110 /\ subs[n].drawn.y = 145

\* C10: before any manipulation the Placement State is a quarter of the native
\* size at (150, 205) and equals the Rnd element's frame; 2000x4000 starts at
\* 500x1000.
C10_DefaultPlacement ==
    ~touched =>
        /\ renderedDimensions[1][1] * 4 = imageDimensions[1] * renderedDimensions[1][2]
        /\ renderedDimensions[2][1] * 4 = imageDimensions[2] * renderedDimensions[2][2]
        /\ renderedPosition = <<150, 205>>
        /\ rnd.x = renderedPosition[1] /\ rnd.y = renderedPosition[2]
        /\ rnd.width = renderedDimensions[1] /\ rnd.height = renderedDimensions[2]
        /\ imageDimensions = <<2000, 4000>> =>
               renderedDimensions = << <<500, 1>>, <<1000, 1>> >>

\* a configurator mounted again on a 2000x4000 image, not yet manipulated
C10_FreshMount2000x4000 ==
    /\ ~touched /\ mount > 1
    /\ imageDimensions = <<2000, 4000>>
    /\ renderedDimensions = << <<500, 1>>, <<1000, 1>> >>

\* two export runs that start from the same position, dimensions, layout
\* rectangles and source image
SameExportInputs(s, t) ==
    /\ s.closure = t.closure
    /\ s.rects = t.rects
    /\ s.image = t.image

Failed(s) == s.exp = "failed" \/ s.persist = "failed"

\* C12: the step in which a submission's export or persistence fails leaves
\* the position, the dimensions and the selected options as they were and
\* leaves the configurator mounted, so a retry exports the same placement.
C12_FailureKeepsPlacement ==
    [][(\E n \in Started : Failed(subs'[n]) /\ ~Failed(subs[n]))
        => /\ renderedPosition' = renderedPosition
           /\ renderedDimensions' = renderedDimensions
           /\ options' = options
           /\ imageDimensions' = imageDimensions
           /\ route'.page = "design" /\ mount' = mount]_vars

\* C13: a drag-stop (the element moved, its size did not change) sets the
\* position to the event's (x, y) and leaves the dimensions; a resize-stop (the
\* element's size changed) sets the dimensions to the whole pixels of the
\* event's size and the position to the event's (x, y); no other step changes
\* the Placement State of a mounted configurator; the position is always that
\* of the latest event.
C13_StopEventsWritePlacement ==
    /\ [](renderedPosition = <<rnd.x, rnd.y>>)
    /\ [][mount' = mount =>
            /\ (rnd' # rnd /\ rnd'.width = rnd.width /\ rnd'.height = rnd.height)
                   => /\ renderedPosition' = <<rnd'.x, rnd'.y>>
                      /\ renderedDimensions' = renderedDimensions
            /\ (rnd'.width # rnd.width \/ rnd'.height # rnd.height)
                   => /\ renderedDimensions' =
                            << <<rnd'.width[1] \div rnd'.width[2], 1>>,
                               <<rnd'.height[1] \div rnd'.height[2], 1>> >>
                      /\ renderedPosition' = <<rnd'.x, rnd'.y>>
            /\ rnd' = rnd
                   => /\ renderedPosition' = renderedPosition
                      /\ renderedDimensions' = renderedDimensions]_vars

\* a drag-stop after a resize-stop: the size of the resize, the position of
\* the drag
C13_DraggedAfterResize ==
    /\ touched
    /\ renderedDimensions # InitialDimensions(imageDimensions)
    /\ renderedPosition = <<-20, 30>>
    /\ rnd.width # RndDefault(imageDimensions).width

\* C14: a drag-stop or resize-stop starts no submission and no upload and
\* leaves every Configuration record as it is; a record changes only in the
\* step in which a submission's upload or persistence call succeeds.
C14_RecordChangesOnlyBySubmission ==
    [][/\ (rnd' # rnd /\ mount' = mount)
            => (subs' = subs /\ db' = db /\ uploads' = uploads)
       /\ db' # db
            => \E n \in Started :
                   \/ subs[n].exp = "uploading" /\ subs'[n].exp = "ok"
                   \/ subs[n].persist = "inflight" /\ subs'[n].persist = "ok"]_vars

\* the image has been moved and resized, nothing was submitted and the records
\* are as they were created
C14_ManipulatedNothingSaved ==
    /\ touched
    /\ renderedPosition # InitialPosition
    /\ renderedDimensions # InitialDimensions(imageDimensions)
    /\ subs = <<>>
    /\ \A id \in DOMAIN db : db[id] = NewConfiguration(id, imageDimensions)

\* the options a record holds
StoredOptions(c) ==
    [color |-> c.color, model |-> c.model, material |-> c.material, finish |-> c.finish]

C16_ExportStepOrder ==
    /\ [](\A n \in Started :
            LET s == subs[n] IN
            /\ s.exp \in {"loading", "stuck"} => (s.drawn = Null /\ s.file = Null)
            /\ s.file # Null => (s.drawn # Null /\ s.file.pixels.drawn = s.drawn)
            /\ s.exp \in {"uploading", "ok"} => s.file # Null)
    /\ [][\A n \in Started :
            subs'[n].exp # subs[n].exp =>
                <<subs[n].exp, subs'[n].exp>> \in
                    {<<"loading", "uploading">>, <<"loading", "failed">>,
                     <<"loading", "stuck">>, <<"uploading", "ok">>,
                     <<"uploading", "failed">>}]_vars

\* an export of a moved and resized image has gone through every step
C16_ExportRanToTheEnd ==
    \E n \in Started :
        /\ subs[n].exp = "ok"
        /\ subs[n].file # Null
        /\ subs[n].closure.position # InitialPosition
        /\ subs[n].closure.dimensions # InitialDimensions(imageDimensions)

\* C17: the step in which an upload without a configId completes creates
\* exactly one Configuration, with the file's URL as imageUrl, a width and a
\* height, no cropped image and no options, returns its id and leaves every
\* other record; records are created by no other step; the step in which an
\* upload with a configId completes creates no record and changes only
\* croppedImageUrl of that record.
C17_UploadCreatesOrAttaches ==
    [][/\ \A u \in 1..Len(uploads) :
            (uploads[u].status = "uploading" /\ uploads'[u].status = "stored") =>
                LET id == uploads'[u].configId
                    f == uploads[u].file
                IN  /\ DOMAIN db' = DOMAIN db \cup {id}
                    /\ id \notin DOMAIN db
                    /\ db'[id].imageUrl = <<"ufs", u, f.name>>
                    /\ db'[id].width > 0 /\ db'[id].height > 0
                    /\ f.width # 0 => db'[id].width = f.width
                    /\ f.height # 0 => db'[id].height = f.height
                    /\ db'[id].croppedImageUrl = Null
                    /\ StoredOptions(db'[id]) =
                          [color |-> "null", model |-> "null",
                           material |-> "null", finish |-> "null"]
                    /\ \A other \in DOMAIN db : db'[other] = db[other]
       /\ DOMAIN db' # DOMAIN db =>
            \E u \in 1..Len(uploads) :
                uploads[u].status = "uploading" /\ uploads'[u].status = "stored"
       /\ \A n \in Started :
            (subs[n].exp = "uploading" /\ subs'[n].exp = "ok") =>
                LET id == subs[n].args.configId IN
                /\ DOMAIN db' = DOMAIN db
                /\ db'[id].croppedImageUrl = <<"ufs", n>>
                /\ db'[id].imageUrl = db[id].imageUrl
                /\ db'[id].width = db[id].width /\ db'[id].height = db[id].height
                /\ StoredOptions(db'[id]) = StoredOptions(db[id])
                /\ \A other \in DOMAIN db \ {id} : db'[other] = db[other]]_vars

\* two uploads have created two records, and an export has attached its
\* cropped image to one of them
C17_TwoCreatedOneCropped ==
    \E a \in DOMAIN db : \E b \in DOMAIN db :
        /\ a # b
        /\ db[a].croppedImageUrl # Null
        /\ db[b].croppedImageUrl = Null
        /\ db[a].imageUrl # db[b].imageUrl

\* a PNG, JPG or JPEG file, by MIME type or by extension
IsPngOrJpeg(f) ==
    \/ f.type \in {"image/png", "image/jpeg", "image/jpg"}
    \/ f.ext \in {".png", ".jpeg", ".jpg"}

\* C19: no upload is ever started for a file that is not PNG, JPG or JPEG and
\* every Configuration comes from an upload; the step that rejects a file adds
\* one error notification, clears the drag-over flag, starts no upload,
\* creates or changes no record and does not navigate.
C19_RejectedFileStartsNothing ==
    /\ [](/\ \A u \in 1..Len(uploads) : IsPngOrJpeg(uploads[u].file)
          /\ \A id \in DOMAIN db : \E u \in 1..Len(uploads) : uploads[u].configId = id)
    /\ [][Len(rejected') > Len(rejected) =>
            /\ Len(rejected') = Len(rejected) + 1
            /\ isDragOver' = FALSE
            /\ uploads' = uploads
            /\ db' = db
            /\ route' = route /\ mount' = mount /\ configId' = configId
            /\ subs' = subs]_vars

\* the GIF was dropped and rejected on the upload page: a notification, the
\* flag cleared, no upload, no record
C19_GifRejected ==
    /\ Len(rejected) = 1 /\ rejected[1] = "anim.gif"
    /\ ~isDragOver
    /\ uploads = <<>>
    /\ DOMAIN db = {}
    /\ route.page = "upload"

\* C18: the canvas of every export has the width and height of the
\* silhouette's measured rectangle, whatever the position and size of the
\* image, and every encoded file is named filename.png, has type image/png and
\* holds that canvas.
C18_CanvasIsSilhouetteFileIsPng ==
    \A n \in Started :
        LET s == subs[n] IN
        /\ s.canvas = <<s.rects.width, s.rects.height>>
        /\ s.file # Null =>
              /\ s.file.name = "filename.png"
              /\ s.file.type = "image/png"
              /\ s.file.pixels.canvas = <<s.rects.width, s.rects.height>>

\* a resized image, smaller than the silhouette, has been encoded on the
\* scrolled layout
C18_SmallCropEncoded ==
    \E n \in Started :
        /\ subs[n].file # Null
        /\ subs[n].rects = ScrolledLayout
        /\ subs[n].closure.dimensions = << <<125, 1>>, <<93, 1>> >>
        /\ subs[n].canvas = <<180, 368>>

\* C20: the Order table never holds two orders of the same user for the
\* same configuration, however many createCheckoutSession calls ran and
\* however they overlapped.
C20_OneOrderPerUserAndConfiguration ==
    \A i \in 1..Len(orders) : \A j \in 1..Len(orders) :
        (/\ orders[i].userId = orders[j].userId
         /\ orders[i].configurationId = orders[j].configurationId) => i = j

\* the two precondition errors of createCheckoutSession
PreconditionErrors == {"No such configuration found", "You need to be logged in"}

\* C25: a createCheckoutSession call for a configuration id that does not
\* exist, or made while nobody is signed in, fails with an error, and up to
\* that point the call has written no User, no Order, no Stripe product and
\* no checkout session; a call that succeeds returns a session whose
\* metadata and success URL both name the order of that user and
\* configuration.
C25_PreconditionsThenSession ==
    /\ [](\A k \in 1..Len(calls) :
            LET c == calls[k] IN
            /\ c.configId \notin DOMAIN db => c.pc \in {"findConfiguration", "failed"}
            /\ (c.pc = "failed" /\ c.error \in PreconditionErrors)
                   => (c.order = 0 /\ ~c.created /\ c.session = 0 /\ c.user = "none")
            /\ c.pc = "done" =>
                   LET ss == stripe.sessions[c.session] IN
                   /\ ss.metadata.orderId = c.order
                   /\ ss.successOrderId = c.order
                   /\ ss.metadata.userId = c.user
                   /\ orders[c.order].userId = c.user
                   /\ orders[c.order].configurationId = c.configId)
    /\ [][\A k \in 1..Len(calls) :
            (calls[k].pc \in {"findConfiguration", "getUser"} /\ calls'[k] # calls[k])
                => /\ users' = users /\ orders' = orders /\ stripe' = stripe
                   /\ (calls[k].pc = "getUser" /\ session = "none")
                          => (calls'[k].pc = "failed"
                              /\ calls'[k].error = "You need to be logged in")
                   /\ (calls[k].pc = "findConfiguration" /\ calls[k].configId \notin DOMAIN db)
                          => (calls'[k].pc = "failed"
                              /\ calls'[k].error = "No such configuration found")]_vars

\* one call failed because nobody was signed in while another returned its
\* session: one user, one order, one session
C25_OneFailedOneReturned ==
    \E k \in 1..Len(calls) : \E j \in 1..Len(calls) :
        /\ calls[k].pc = "failed" /\ calls[k].error = "You need to be logged in"
        /\ calls[j].pc = "done"
        /\ Len(orders) = 1 /\ Len(stripe.sessions) = 1 /\ Cardinality(users) = 1

\* C26: for every finish and material, the unit_amount of the product a
\* call creates is BASE_PRICE plus the textured surcharge exactly when the
\* finish is textured plus the polycarbonate surcharge exactly when the
\* material is polycarbonate; it is the Order Total of the preview page for
\* that configuration; the amount of an order the call created is that price
\* divided by 100.
C26_PriceCharged ==
    \A k \in 1..Len(calls) :
        LET c == calls[k]
            cfg == db[c.configId]
            expected == BASE_PRICE
                        + (IF cfg.finish = "textured" THEN TexturedPrice ELSE 0)
                        + (IF cfg.material = "polycarbonate" THEN PolycarbonatePrice ELSE 0)
        IN  /\ c.product # 0 =>
                  /\ stripe.products[c.product].unit_amount = expected
                  /\ stripe.products[c.product].unit_amount = TotalPrice(cfg)
            /\ c.session # 0 => stripe.sessions[c.session].price = c.product
            /\ c.created =>
                  orders[c.order].amount[1] * 100 = expected * orders[c.order].amount[2]

\* a textured polycarbonate case was checked out: 2200 cents charged, an
\* order of 22 created
C26_TexturedPolycarbonateCharged ==
    \E k \in 1..Len(calls) :
        /\ calls[k].pc = "done" /\ calls[k].created
        /\ db[calls[k].configId].finish = "textured"
        /\ db[calls[k].configId].material = "polycarbonate"
        /\ stripe.products[calls[k].product].unit_amount = 2200
        /\ orders[calls[k].order].amount = <<22, 1>>

\* a request that carries the header, passes the verification, is of type
\* checkout.session.completed and has the email and both metadata entries
Verified(r) ==
    /\ r.signature = "valid"
    /\ r.type = "checkout.session.completed"
    /\ r.email # "none"
    /\ r.userId # "none"
    /\ r.orderId # 0

\* C21: an order becomes paid only in the update of a webhook request that
\* carries the signature header, passes the verification, is of type
\* checkout.session.completed and has the customer email, userId and orderId;
\* a request failing one of these is answered at once, changes no order and
\* sends no email (400 without the header, 500 when the handler threw) and
\* never acts afterwards; a paid order stays paid and no order disappears
C21_PaidOnlyByVerifiedWebhook ==
    [][ /\ \A o \in 1..Len(orders) :
             o \in 1..Len(orders') /\ (orders[o].isPaid => orders'[o].isPaid)
        /\ \A o \in 1..Len(orders') :
             (orders'[o].isPaid /\ (o > Len(orders) \/ ~orders[o].isPaid)) =>
                 \E h \in 1..Len(hooks) :
                     /\ hooks[h].pc = "update" /\ hooks'[h].pc = "email"
                     /\ Verified(hooks[h].req)
                     /\ hooks[h].req.orderId = o
        /\ \A h \in 1..Len(hooks') :
             ~Verified(hooks'[h].req) =>
                 IF h > Len(hooks)
                 THEN /\ orders' = orders /\ emails' = emails
                      /\ hooks'[h].pc = "responded"
                      /\ hooks'[h].req.signature = "none" => hooks'[h].status = 400
                      /\ (hooks'[h].req.signature = "forged"
                            \/ (hooks'[h].req.signature = "valid"
                                 /\ hooks'[h].req.type = "checkout.session.completed"))
                           => hooks'[h].status = 500
                 ELSE hooks'[h] = hooks[h] ]_vars

\* an order was paid by a verified request and a forged request was answered 500
C21_OnePaidOneForgedRefused ==
    /\ \E o \in 1..Len(orders) : orders[o].isPaid
    /\ \E h \in 1..Len(hooks) :
         hooks[h].req.signature = "forged" /\ hooks[h].status = 500

\* C27: an email is sent only for an order whose update to paid, with both
\* addresses, succeeded; a request whose update failed sends no email and is
\* answered 500; a response is ok only if the update and the email send
\* both succeeded
C27_EmailAfterUpdateOkOnlyBoth ==
    /\ \A e \in 1..Len(emails) :
         /\ hooks[emails[e].hook].updated
         /\ orders[emails[e].orderId].isPaid
         /\ orders[emails[e].orderId].shippingAddress # Null
         /\ orders[emails[e].orderId].billingAddress # Null
    /\ \A h \in 1..Len(hooks) :
         (hooks[h].pc = "responded" /\ Validate(hooks[h].req) = 0 /\ ~hooks[h].updated) =>
             /\ hooks[h].status = 500
             /\ \A e \in 1..Len(emails) : emails[e].hook # h
    /\ \A h \in 1..Len(hooks) :
         hooks[h].ok =>
             /\ hooks[h].updated
             /\ \E e \in 1..Len(emails) : emails[e].hook = h

\* C22: getPaymentStatus returns the order only to a logged-in caller who owns
\* it and only when it is paid, returns false for the caller's own unpaid
\* order, and throws for a caller not logged in, an order that does not exist
\* and an order of another user; the data the page holds was returned by it
C22_OrderOnlyToItsPayer ==
    /\ [](\A u \in UserIds \cup {"none"}, o \in OrderIds :
            LET r == GetPaymentStatus(u, o)
                own == u # "none" /\ o \in 1..Len(orders) /\ orders[o].userId = u
            IN  /\ r.kind = "order" => own /\ orders[o].isPaid /\ r.order = orders[o]
                /\ (own /\ orders[o].isPaid) => r.kind = "order"
                /\ (own /\ ~orders[o].isPaid) => r.kind = "false"
                /\ ~own => r.kind = "throw")
    /\ [][(thankYou'.data # thankYou.data /\ thankYou'.data.kind = "order") =>
              /\ session # "none"
              /\ orders[thankYou.orderId].userId = session
              /\ thankYou'.data.order = orders[thankYou.orderId]
              /\ thankYou'.data.order.isPaid]_vars

\* u1 sees the paid order 1 on the page, and asking for order 2 would throw
C22_OwnPaidOrderShown ==
    /\ session = "u1"
    /\ Shows(thankYou.data) = "order"
    /\ thankYou.data.order.userId = "u1"
    /\ GetPaymentStatus(session, 2).kind = "throw"
    /\ orders[2].isPaid

\* C23: a page whose query returned false, and whose order the webhook has
\* marked paid since, comes to show the order without being loaded again
C23_VerifyingEndsOncePaid ==
    (/\ thankYou.open
     /\ Shows(thankYou.data) = "Verifying your payment..."
     /\ thankYou.orderId \in 1..Len(orders)
     /\ orders[thankYou.orderId].isPaid)
        ~> (Shows(thankYou.data) = "order")

\* C24: a Check out click without a session stores the id of the previewed
\* configuration and starts no payment session; the callback page navigates
\* only in the step in which getAuthStatus reports success, to the preview of
\* the stored id, which it removes, and to '/' only when no id is stored; a
\* visit has one navigation once success was reported and none before
C24_StoredIdLeadsBackToPreview ==
    /\ [](/\ Len(callback.pushes) <= 1
          /\ (callback.data = "success") <=> (Len(callback.pushes) = 1))
    /\ [][
           /\ (session = "none" /\ route.page = "preview" /\ isLoginModalOpen'
               /\ ~isLoginModalOpen) =>
                   /\ storage' = route.id
                   /\ calls' = calls /\ stripe' = stripe /\ orders' = orders
           /\ (storage' # storage /\ storage' # "none") =>
                   session = "none" /\ storage' = route.id
           /\ (callback'.pushes # callback.pushes /\ callback'.pushes # <<>>) =>
                   /\ callback.pushes = <<>>
                   /\ callback.data = "undefined" /\ callback'.data = "success"
                   /\ session # "none"
                   /\ route' = callback'.pushes[1]
                   /\ IF storage # "none"
                      THEN /\ callback'.pushes = <<[page |-> "preview", id |-> storage]>>
                           /\ storage' = "none"
                      ELSE /\ callback'.pushes = <<[page |-> "home", id |-> "none"]>>
                           /\ storage' = storage
         ]_vars

\* the callback page has sent a signed-in visitor back to the preview of cfg2,
\* whose id was stored by a Check out click, and the stored id is gone
C24_BackOnPreviewOfStoredId ==
    /\ callback.pushes = <<[page |-> "preview", id |-> "cfg2"]>>
    /\ route = [page |-> "preview", id |-> "cfg2"]
    /\ storage = "none"
    /\ session # "none"
    /\ calls = <<>>

\* C28: the page goes to the design page only in the client callback of an
\* upload the server has completed, and to the id the server returned for
\* that upload, whose Configuration holds that upload's file; nothing is
\* navigated while no upload has completed; a completed upload is followed
\* by its navigation
C28_UploadLeadsToItsConfiguration ==
    /\ []((route.page = "upload") =>
            \A u \in 1..Len(uploads) : uploads[u].status # "done")
    /\ [][(route' # route) =>
             \E u \in 1..Len(uploads) :
                 /\ uploads[u].status = "stored" /\ uploads'[u].status = "done"
                 /\ route' = [page |-> "design", id |-> uploads[u].configId]
                 /\ uploads[u].configId \in DOMAIN db
                 /\ db[uploads[u].configId].imageUrl = SourceUrl(u)
                 /\ \A v \in 1..Len(uploads) :
                        v # u => uploads[v].configId # uploads[u].configId]_vars
    /\ \A u \in 1..MaxDrops :
         (u \in 1..Len(uploads) /\ uploads[u].status = "stored")
            ~> (/\ u \in 1..Len(uploads)
                /\ uploads[u].status = "done"
                /\ \E v \in 1..Len(uploads) :
                       route = [page |-> "design", id |-> uploads[v].configId])

\* the first upload has brought the page to the design page of the
\* Configuration made from its file, while a second upload is still stored
C28_OnDesignPageOfFirstUpload ==
    /\ Len(uploads) = 2
    /\ uploads[1].status = "done"
    /\ uploads[2].status = "stored"
    /\ route = [page |-> "design", id |-> uploads[1].configId]
    /\ db[route.id].imageUrl = SourceUrl(1)
====
